---- MODULE Spec2Model ----
(***************************************************************************)
(* Model of echo-bot/bots/echo_bot.py: the EchoBot message handler, its    *)
(* command dispatch, the optional language-client hook and the `calc`      *)
(* expression evaluator (_handle_calc, _evaluate_expression, _eval_node).  *)
(*                                                                         *)
(* Strings are sequences of pieces.  A piece is one character, except      *)
(* NineRun, which is a run of 400 characters '9' kept as one piece so that *)
(* an integer literal beyond the range of a float fits a short sequence.   *)
(*                                                                         *)
(* Numbers are records [t, a, n, d]:                                       *)
(*   t = "int",   d = 1 : the Python int  a * H + n,  H = 10^400 - 1       *)
(*   t = "float", a = 0 : the Python float n / d (d > 0, lowest terms)     *)
(* Float arithmetic is exact rational arithmetic; on the inputs of the     *)
(* specifications below no rounding changes a result's being zero.         *)
(***************************************************************************)
EXTENDS Integers, Sequences, FiniteSets, TLC

VARIABLES
    bot,         \* the EchoBot instance: its fields and the class tables
    text,        \* turn_context.activity.text of the message being handled
    pc,          \* where the handler stands
    sent,        \* the replies sent with send_activity for this message
    calls,       \* the calls made while handling it, in order
    sentiment,   \* how analyze_sentiment ended, "None" before it
    key_result,  \* how extract_key_phrases ended, "None" before it
    payload,     \* the argument of the last _handle_calc
    outcome,     \* what the last _handle_calc returned or raised
    earlier      \* the kinds of outcome of the calls of _handle_calc before it

vars == <<bot, text, pc, sent, calls, sentiment, key_result, payload, outcome, earlier>>

(***************************************************************************)
(* Characters                                                              *)
(***************************************************************************)
NineRun == "9999999999999999999999999999999999999999999999999999999999999999999999999999999999999999999999999999999999999999999999999999999999999999999999999999999999999999999999999999999999999999999999999999999999999999999999999999999999999999999999999999999999999999999999999999999999999999999999999999999999999999999999999999999999999999999999999999999999999999999999999999999999999999999999999999999999999999"

DigitChars == <<"0", "1", "2", "3", "4", "5", "6", "7", "8", "9">>

Digits == {DigitChars[k] : k \in 1..10} \cup {NineRun}

\* str.strip() and the class \s: space, tab, newline, carriage return, form feed
Whitespace == {" ", "\t", "\n", "\r", "\f"}

\* ALLOWED_CALC_PATTERN: the class [0-9+\-*/().\s]
AllowedChars == Digits \cup {"+", "-", "*", "/", "(", ")", "."} \cup Whitespace

IsDigit(c) == c \in Digits

DigitOf(c) == (CHOOSE k \in 1..10 : DigitChars[k] = c) - 1

(***************************************************************************)
(* str.strip(): drop leading and trailing whitespace                       *)
(***************************************************************************)
RECURSIVE LStrip(_)
LStrip(s) ==
    IF s # <<>> /\ Head(s) \in Whitespace THEN LStrip(Tail(s)) ELSE s

RECURSIVE RStrip(_)
RStrip(s) ==
    IF s # <<>> /\ s[Len(s)] \in Whitespace
    THEN RStrip(SubSeq(s, 1, Len(s) - 1))
    ELSE s

strip(s) == RStrip(LStrip(s))

\* (mutant) the pattern matched at the start only, as re.match without the
\* closing $ would: one allowed character in front is enough
ALLOWED_CALC_PATTERN_match(s) ==
    /\ Len(s) >= 1
    /\ s[1] \in AllowedChars

\* ALLOWED_CALC_PATTERN.fullmatch(expression): one or more allowed characters
ALLOWED_CALC_PATTERN_fullmatch(s) ==
    /\ Len(s) >= 1
    /\ \A i \in 1..Len(s) : s[i] \in AllowedChars

(***************************************************************************)
(* Numbers                                                                 *)
(***************************************************************************)
Abs(x) == IF x < 0 THEN -x ELSE x

RECURSIVE GCD(_, _)
GCD(x, y) == IF y = 0 THEN x ELSE GCD(y, x % y)

PyInt(a, n) == [t |-> "int", a |-> a, n |-> n, d |-> 1]

PyFloat(n, d) ==
    LET g == GCD(Abs(n), Abs(d))
        s == IF d < 0 THEN -1 ELSE 1
    IN  [t |-> "float", a |-> 0, n |-> s * (n \div g), d |-> s * (d \div g)]

IsBig(v) == v.a # 0

RECURSIVE Pow10(_)
Pow10(k) == IF k = 0 THEN 1 ELSE 10 * Pow10(k - 1)

\* the value a * H + n of a run of digits, folded left to right from (a, n);
\* a NineRun after the digits n gives n * 10^400 + H = (n + 1) * H + n
\* (the inputs hold at most one NineRun, so a = 0 there)
RECURSIVE DigitsValue(_, _, _)
DigitsValue(ds, a, n) ==
    IF ds = <<>> THEN [a |-> a, n |-> n]
    ELSE IF Head(ds) = NineRun
         THEN DigitsValue(Tail(ds), n + 1, n)
         ELSE DigitsValue(Tail(ds), 10 * a, 10 * n + DigitOf(Head(ds)))

\* the value of a NUMBER token's text
NumberValue(lit) ==
    IF \A i \in 1..Len(lit) : lit[i] # "."
    THEN LET v == DigitsValue(lit, 0, 0) IN PyInt(v.a, v.n)
    ELSE LET p    == CHOOSE i \in 1..Len(lit) : lit[i] = "."
             ip   == DigitsValue(SubSeq(lit, 1, p - 1), 0, 0)
             fr   == DigitsValue(SubSeq(lit, p + 1, Len(lit)), 0, 0)
             sc   == Pow10(Len(lit) - p)
         IN  [PyFloat(ip.n * sc + fr.n, sc) EXCEPT !.a = ip.a + fr.a]

(***************************************************************************)
(* ast.parse(expression, mode="eval"): the tokenizer.  A token is a record *)
(* [type, value]; type is "NUMBER", "NEWLINE" or the operator's text.      *)
(***************************************************************************)
NoValue == PyInt(0, 0)

\* the constant that the token '...' denotes: no number
Ellipsis == [t |-> "ellipsis", a |-> 0, n |-> 0, d |-> 1]

Token(type) == [type |-> type, value |-> NoValue]

\* the first index from i on that holds no digit
RECURSIVE SkipDigits(_, _)
SkipDigits(s, i) ==
    IF i <= Len(s) /\ IsDigit(s[i]) THEN SkipDigits(s, i + 1) ELSE i

TokenError == [ok |-> FALSE, toks |-> <<>>]

\* depth counts the open parentheses: a line break inside them is skipped,
\* one outside them ends the logical line (NEWLINE)
RECURSIVE Tokenize(_, _, _, _)
Tokenize(s, i, depth, acc) ==
    IF i > Len(s) THEN [ok |-> TRUE, toks |-> acc]
    ELSE LET c == s[i] IN
      IF c \in {" ", "\t", "\f"} THEN Tokenize(s, i + 1, depth, acc)
      ELSE IF c \in {"\n", "\r"} THEN
           IF depth > 0 THEN Tokenize(s, i + 1, depth, acc)
           ELSE Tokenize(s, i + 1, depth, Append(acc, Token("NEWLINE")))
      ELSE IF IsDigit(c) \/ (c = "." /\ i < Len(s) /\ IsDigit(s[i + 1])) THEN
           LET j      == SkipDigits(s, i)
               hasDot == j <= Len(s) /\ s[j] = "."
               k      == IF hasDot THEN SkipDigits(s, j + 1) ELSE j
               lit    == SubSeq(s, i, k - 1)
           IN  \* "leading zeros in decimal integer literals are not permitted"
               IF ~hasDot /\ c = "0" /\ (\E m \in i..(j - 1) : s[m] # "0")
               THEN TokenError
               ELSE Tokenize(s, k, depth,
                        Append(acc, [type |-> "NUMBER", value |-> NumberValue(lit)]))
      ELSE IF c = "." THEN
           IF i + 2 <= Len(s) /\ s[i + 1] = "." /\ s[i + 2] = "."
           THEN Tokenize(s, i + 3, depth, Append(acc, Token("...")))
           ELSE Tokenize(s, i + 1, depth, Append(acc, Token(".")))
      ELSE IF c \in {"*", "/"} /\ i < Len(s) /\ s[i + 1] = c
           THEN Tokenize(s, i + 2, depth, Append(acc, Token(IF c = "*" THEN "**" ELSE "//")))
      ELSE IF c = "(" THEN Tokenize(s, i + 1, depth + 1, Append(acc, Token(c)))
      ELSE IF c = ")" THEN
           IF depth = 0 THEN TokenError      \* "unmatched ')'"
           ELSE Tokenize(s, i + 1, depth - 1, Append(acc, Token(c)))
      ELSE IF c \in {"+", "-", "*", "/"} THEN Tokenize(s, i + 1, depth, Append(acc, Token(c)))
      ELSE TokenError                         \* no token starts with c

(***************************************************************************)
(* ast.parse(expression, mode="eval"): the grammar of Python expressions   *)
(* over these tokens.  A parse result is [ok, node, pos]: the node built   *)
(* and the index of the next token.  Nodes:                                *)
(*   [type |-> "BinOp", op, left, right]   op in Add Sub Mult Div Pow      *)
(*                                            FloorDiv                     *)
(*   [type |-> "UnaryOp", op, operand]     op in UAdd USub                 *)
(*   [type |-> "Constant", value]          value a number or Ellipsis      *)
(*   [type |-> "Call"], [type |-> "Tuple"]                                 *)
(***************************************************************************)
NoParse == [ok |-> FALSE, node |-> [type |-> "None"], pos |-> 0]

Parsed(node, pos) == [ok |-> TRUE, node |-> node, pos |-> pos]

At(toks, i) == IF i <= Len(toks) THEN toks[i].type ELSE "ENDMARKER"

BinOpName(t) ==
    CASE t = "+"  -> "Add"
      [] t = "-"  -> "Sub"
      [] t = "*"  -> "Mult"
      [] t = "/"  -> "Div"
      [] t = "//" -> "FloorDiv"
      [] t = "**" -> "Pow"

BinOp(op, l, r) == [type |-> "BinOp", op |-> op, left |-> l, right |-> r]

UnaryOp(op, x) == [type |-> "UnaryOp", op |-> op, operand |-> x]

\* The rules of the grammar call one another in a cycle; they are the cases
\* of one operator, PyRule(rule, toks, i, l): rule at token i, l the parse of
\* the left operand for the rules that continue one.
RECURSIVE PyRule(_, _, _, _)
PyRule(rule, toks, i, l) ==
    CASE rule = "sum" ->
           \* sum: sum ('+' | '-') term | term
           LET t == PyRule("term", toks, i, NoParse) IN
           IF t.ok THEN PyRule("sum_rest", toks, t.pos, t) ELSE NoParse
      [] rule = "sum_rest" ->
           IF At(toks, i) \in {"+", "-"}
           THEN LET r == PyRule("term", toks, i + 1, NoParse) IN
                IF r.ok
                THEN PyRule("sum_rest", toks, r.pos,
                            Parsed(BinOp(BinOpName(At(toks, i)), l.node, r.node), r.pos))
                ELSE NoParse
           ELSE l
      [] rule = "term" ->
           \* term: term ('*' | '/' | '//') factor | factor
           LET f == PyRule("factor", toks, i, NoParse) IN
           IF f.ok THEN PyRule("term_rest", toks, f.pos, f) ELSE NoParse
      [] rule = "term_rest" ->
           IF At(toks, i) \in {"*", "/", "//"}
           THEN LET r == PyRule("factor", toks, i + 1, NoParse) IN
                IF r.ok
                THEN PyRule("term_rest", toks, r.pos,
                            Parsed(BinOp(BinOpName(At(toks, i)), l.node, r.node), r.pos))
                ELSE NoParse
           ELSE l
      [] rule = "factor" ->
           \* factor: ('+' | '-') factor | power
           \* power: primary '**' factor | primary
           IF At(toks, i) \in {"+", "-"}
           THEN LET x == PyRule("factor", toks, i + 1, NoParse) IN
                IF x.ok
                THEN Parsed(UnaryOp(IF At(toks, i) = "+" THEN "UAdd" ELSE "USub", x.node),
                            x.pos)
                ELSE NoParse
           ELSE LET b == PyRule("primary", toks, i, NoParse) IN
                IF b.ok /\ At(toks, b.pos) = "**"
                THEN LET e == PyRule("factor", toks, b.pos + 1, NoParse) IN
                     IF e.ok THEN Parsed(BinOp("Pow", b.node, e.node), e.pos) ELSE NoParse
                ELSE b
      [] rule = "primary" ->
           \* primary: primary '(' [arguments] ')' | atom
           \* atom: NUMBER | '...' | '(' ')' | '(' expression ')'
           IF At(toks, i) = "NUMBER"
           THEN PyRule("primary_rest", toks, i + 1,
                       Parsed([type |-> "Constant", value |-> toks[i].value], i + 1))
           ELSE IF At(toks, i) = "..."
           THEN PyRule("primary_rest", toks, i + 1,
                       Parsed([type |-> "Constant", value |-> Ellipsis], i + 1))
           ELSE IF At(toks, i) = "(" /\ At(toks, i + 1) = ")"
           THEN PyRule("primary_rest", toks, i + 2, Parsed([type |-> "Tuple"], i + 2))
           ELSE IF At(toks, i) = "("
           THEN LET e == PyRule("sum", toks, i + 1, NoParse) IN
                IF e.ok /\ At(toks, e.pos) = ")"
                THEN PyRule("primary_rest", toks, e.pos + 1, Parsed(e.node, e.pos + 1))
                ELSE NoParse
           ELSE NoParse
      [] rule = "primary_rest" ->
           \* the call's one argument: an expression, '*' expression or
           \* '**' expression
           IF At(toks, i) = "(" /\ At(toks, i + 1) = ")"
           THEN PyRule("primary_rest", toks, i + 2, Parsed([type |-> "Call"], i + 2))
           ELSE IF At(toks, i) = "("
           THEN LET s == IF At(toks, i + 1) \in {"*", "**"} THEN i + 2 ELSE i + 1
                    a == PyRule("sum", toks, s, NoParse)
                IN  IF a.ok /\ At(toks, a.pos) = ")"
                    THEN PyRule("primary_rest", toks, a.pos + 1,
                                Parsed([type |-> "Call"], a.pos + 1))
                    ELSE NoParse
           ELSE l

PySum(toks, i) == PyRule("sum", toks, i, NoParse)

\* eval_input: expressions NEWLINE* ENDMARKER
RECURSIVE OnlyNewlines(_, _)
OnlyNewlines(toks, i) ==
    i > Len(toks) \/ (toks[i].type = "NEWLINE" /\ OnlyNewlines(toks, i + 1))

\* ast.parse: [ok, body]; ok = FALSE is SyntaxError
ast_parse(expression) ==
    LET t == Tokenize(expression, 1, 0, <<>>) IN
    IF ~t.ok THEN [ok |-> FALSE, body |-> NoParse.node]
    ELSE LET e == PySum(t.toks, 1) IN
         IF e.ok /\ OnlyNewlines(t.toks, e.pos)
         THEN [ok |-> TRUE, body |-> e.node]
         ELSE [ok |-> FALSE, body |-> NoParse.node]

(***************************************************************************)
(* The operator module: add, sub, mul, truediv, pos, neg on int and float. *)
(* A call returns [exc, value]; exc = "None" is a normal return.           *)
(***************************************************************************)
Return(v) == [exc |-> "None", value |-> v]

Raise(e) == [exc |-> e, value |-> NoValue]

\* int op int is an int; with a float operand the int operand is converted,
\* and an int beyond the float range raises OverflowError
\* ("int too large to convert to float")
operator_add(l, r) ==
    IF l.t = "int" /\ r.t = "int" THEN Return(PyInt(l.a + r.a, l.n + r.n))
    ELSE IF IsBig(l) \/ IsBig(r) THEN Raise("OverflowError")
    ELSE Return(PyFloat(l.n * r.d + r.n * l.d, l.d * r.d))

operator_sub(l, r) ==
    IF l.t = "int" /\ r.t = "int" THEN Return(PyInt(l.a - r.a, l.n - r.n))
    ELSE IF IsBig(l) \/ IsBig(r) THEN Raise("OverflowError")
    ELSE Return(PyFloat(l.n * r.d - r.n * l.d, l.d * r.d))

\* (the product of two ints beyond the float range has a term in H^2 that
\* the record does not hold: no input below holds two NineRuns)
operator_mul(l, r) ==
    IF l.t = "int" /\ r.t = "int"
    THEN Return(PyInt(l.a * r.n + r.a * l.n, l.n * r.n))
    ELSE IF IsBig(l) \/ IsBig(r) THEN Raise("OverflowError")
    ELSE Return(PyFloat(l.n * r.n, l.d * r.d))

\* int / int: ZeroDivisionError on a zero divisor, else the rounded quotient,
\* OverflowError when it is beyond the float range ("integer division result
\* too large for a float"); with a float operand the int is converted first
operator_truediv(l, r) ==
    IF l.t = "int" /\ r.t = "int" THEN
         IF ~IsBig(r) /\ r.n = 0 THEN Raise("ZeroDivisionError")
         ELSE IF IsBig(l) /\ IsBig(r) THEN Return(PyFloat(l.a, r.a))
         ELSE IF IsBig(l) THEN Raise("OverflowError")
         ELSE IF IsBig(r) THEN Return(PyFloat(0, 1))
         ELSE Return(PyFloat(l.n, r.n))
    ELSE IF IsBig(l) \/ IsBig(r) THEN Raise("OverflowError")
    ELSE IF r.n = 0 THEN Raise("ZeroDivisionError")
    ELSE Return(PyFloat(l.n * r.d, l.d * r.n))

operator_pos(x) == Return(x)

operator_neg(x) ==
    IF x.t = "int" THEN Return(PyInt(-x.a, -x.n)) ELSE Return(PyFloat(-x.n, x.d))

Call2(f, l, r) ==
    CASE f = "add"     -> operator_add(l, r)
      [] f = "sub"     -> operator_sub(l, r)
      [] f = "mul"     -> operator_mul(l, r)
      [] f = "truediv" -> operator_truediv(l, r)

Call1(f, x) ==
    CASE f = "pos" -> operator_pos(x)
      [] f = "neg" -> operator_neg(x)

(***************************************************************************)
(* EchoBot                                                                 *)
(***************************************************************************)
BINARY_OPERATORS == [Add |-> "add", Sub |-> "sub", Mult |-> "mul", Div |-> "truediv"]

UNARY_OPERATORS == [UAdd |-> "pos", USub |-> "neg"]

Capabilities == <<"help", "about", "time", "calc", "Fallback">>

\* EchoBot(language_client): the fields of the instance and the class tables
\* it reads through self
EchoBot(language_client) ==
    [language_client  |-> language_client,
     capabilities     |-> Capabilities,
     BINARY_OPERATORS |-> BINARY_OPERATORS,
     UNARY_OPERATORS  |-> UNARY_OPERATORS]

\* _eval_node(self, node): [exc, value]
RECURSIVE eval_node(_, _)
eval_node(self, node) ==
    IF node.type = "BinOp" /\ node.op \in DOMAIN self.BINARY_OPERATORS THEN
         LET left == eval_node(self, node.left) IN
         IF left.exc # "None" THEN left
         ELSE LET right == eval_node(self, node.right) IN
              IF right.exc # "None" THEN right
              ELSE Call2(self.BINARY_OPERATORS[node.op], left.value, right.value)
    ELSE IF node.type = "UnaryOp" /\ node.op \in DOMAIN self.UNARY_OPERATORS THEN
         LET operand == eval_node(self, node.operand) IN
         IF operand.exc # "None" THEN operand
         ELSE Call1(self.UNARY_OPERATORS[node.op], operand.value)
    ELSE IF node.type = "Constant" /\ node.value.t \in {"int", "float"} THEN
         Return(node.value)
    ELSE Raise("ValueError")

\* _evaluate_expression(self, expression): [exc, value]
evaluate_expression(self, expression) ==
    LET parsed == ast_parse(expression) IN
    IF ~parsed.ok THEN Raise("SyntaxError") ELSE eval_node(self, parsed.body)

\* what _handle_calc returns: kind names the message,
\*   "Usage"          Usage: `calc <expression>`. Example: `calc 5*2+3`.
\*   "Disallowed"     I can only evaluate digits, spaces, parentheses, ...
\*   "DivisionByZero" Division by zero is undefined. Please adjust ...
\*   "ParseError"     I couldn't parse that expression. Double-check ...
\*   "Result"         f"{expression} = {result}"
\* or, for an exception that no except clause catches, the exception's name
Outcome(kind, expression, value) ==
    [kind |-> kind, expression |-> expression, value |-> value]

Messages == {"Usage", "Disallowed", "DivisionByZero", "ParseError", "Result"}

\* (mutant) a handler that writes to the class table: after a division by
\* zero it takes ast.Div out of BINARY_OPERATORS
handle_calc_disabling(self, payload_) ==
    LET expression == strip(payload_)
        result     == evaluate_expression(self, expression)
        table      == self.BINARY_OPERATORS
    IN
    IF expression = <<>>
    THEN [ret |-> Outcome("Usage", expression, NoValue), self |-> self,
          evaluated |-> FALSE]
    ELSE IF ~ALLOWED_CALC_PATTERN_fullmatch(expression)
    THEN [ret |-> Outcome("Disallowed", expression, NoValue), self |-> self,
          evaluated |-> FALSE]
    ELSE IF result.exc = "ZeroDivisionError"
    THEN [ret |-> Outcome("DivisionByZero", expression, NoValue),
          self |-> [self EXCEPT !.BINARY_OPERATORS =
                        [o \in DOMAIN table \ {"Div"} |-> table[o]]],
          evaluated |-> TRUE]
    ELSE [ret |-> CASE result.exc \in {"SyntaxError", "ValueError"} ->
                         Outcome("ParseError", expression, NoValue)
                    [] result.exc = "None" ->
                         Outcome("Result", expression, result.value)
                    [] OTHER -> Outcome(result.exc, expression, NoValue),
          self |-> self,
          evaluated |-> TRUE]

\* _handle_calc(self, payload): [ret, self, evaluated]: the outcome, the
\* instance after the call, and whether _evaluate_expression was called
handle_calc(self, payload_) ==
    LET expression == strip(payload_) IN
    IF expression = <<>>
    THEN [ret |-> Outcome("Usage", expression, NoValue), self |-> self,
          evaluated |-> FALSE]
    ELSE IF ~ALLOWED_CALC_PATTERN_fullmatch(expression)
    THEN [ret |-> Outcome("Disallowed", expression, NoValue), self |-> self,
          evaluated |-> FALSE]
    ELSE LET result == evaluate_expression(self, expression) IN
         [ret |-> CASE result.exc = "ZeroDivisionError" ->
                         Outcome("DivisionByZero", expression, NoValue)
                    [] result.exc \in {"SyntaxError", "ValueError"} ->
                         Outcome("ParseError", expression, NoValue)
                    [] result.exc = "None" ->
                         Outcome("Result", expression, result.value)
                    [] OTHER -> Outcome(result.exc, expression, NoValue),
          self |-> self,
          evaluated |-> TRUE]

(***************************************************************************)
(* Spec: one call of _handle_calc on a fresh instance, for every payload   *)
(* that is a head over CalcAlphabet followed by one of Tails.  SpecBig is  *)
(* the same over BigAlphabet, whose heads hold at most one NineRun.        *)
(***************************************************************************)
MaxLen == 4

Strings(A, n) == UNION {[1..k -> A] : k \in 0..n}

CalcAlphabet == {"0", "1", "2", "+", "-", "*", "/", "(", ")", ".", " ", "\n", "a"}

BigAlphabet == {NineRun, "0", "1", "-", "/", "*", "(", ")"}

Tails == {<<>>, <<"*", "(", ")">>, <<"+", "2", "*", "*", "3">>}

CalcHeads == Strings(CalcAlphabet, MaxLen)

BigHeads ==
    {x \in Strings(BigAlphabet, MaxLen) :
        Cardinality({i \in 1..Len(x) : x[i] = NineRun}) <= 1}

NoOutcome == Outcome("None", <<>>, NoValue)

\* a fresh instance about to be called with a head followed by a tail
InitCall(heads) ==
    /\ bot = EchoBot("None")
    /\ text = <<>>
    /\ pc = "call"
    /\ sent = <<>>
    /\ calls = <<>>
    /\ sentiment = "None"
    /\ key_result = "None"
    /\ \E h \in heads, t \in Tails : payload = h \o t
    /\ outcome = NoOutcome
    /\ earlier = {}

Init == InitCall(CalcHeads)

InitBig == InitCall(BigHeads)

HandleCalc ==
    /\ pc = "call"
    /\ LET r == handle_calc(bot, payload) IN
         /\ outcome' = r.ret
         /\ bot' = r.self
         /\ calls' = IF r.evaluated THEN Append(calls, "_evaluate_expression") ELSE calls
         /\ pc' = IF r.ret.kind \in Messages THEN "returned" ELSE "raised"
    /\ UNCHANGED <<text, sent, sentiment, key_result, payload, earlier>>

Next == HandleCalc

Spec == Init /\ [][Next]_vars

SpecBig == InitBig /\ [][Next]_vars

(***************************************************************************)
(* SpecBot: one instance handling message after message.                   *)
(* on_message_activity runs to its first await of the executor; the two    *)
(* calls of the language client complete as steps of their own.            *)
(***************************************************************************)
UpperCase == <<"A", "B", "C", "D", "E", "F", "G", "H", "I", "J", "K", "L", "M",
               "N", "O", "P", "Q", "R", "S", "T", "U", "V", "W", "X", "Y", "Z">>

LowerCase == <<"a", "b", "c", "d", "e", "f", "g", "h", "i", "j", "k", "l", "m",
               "n", "o", "p", "q", "r", "s", "t", "u", "v", "w", "x", "y", "z">>

\* str.lower()
lower(s) ==
    [i \in 1..Len(s) |->
        IF \E k \in 1..26 : UpperCase[k] = s[i]
        THEN LowerCase[CHOOSE k \in 1..26 : UpperCase[k] = s[i]]
        ELSE s[i]]

\* text[::-1]
Reverse(s) == [i \in 1..Len(s) |-> s[Len(s) + 1 - i]]

help == <<"h", "e", "l", "p">>

about == <<"a", "b", "o", "u", "t">>

time == <<"t", "i", "m", "e">>

calc == <<"c", "a", "l", "c">>

Commands == {help, about, time, calc}

\* stripped.split(" ", 1): the text before the first space and the text after
\* it, or the whole text alone
split(s) ==
    IF \E i \in 1..Len(s) : s[i] = " "
    THEN LET p == CHOOSE i \in 1..Len(s) :
                      s[i] = " " /\ \A j \in 1..(i - 1) : s[j] # " "
         IN  <<SubSeq(s, 1, p - 1), SubSeq(s, p + 1, Len(s))>>
    ELSE <<s>>

\* the command None
NoCommand == <<>>

\* _extract_command_and_payload(text): [command, payload]
extract_command_and_payload(text_) ==
    LET stripped == strip(text_) IN
    IF stripped = <<>> THEN [command |-> NoCommand, payload |-> <<>>]
    ELSE LET parts     == split(stripped)
             candidate == lower(parts[1])
             payload_  == IF Len(parts) > 1 THEN parts[2] ELSE <<>>
         IN  IF candidate \in Commands
             THEN [command |-> candidate, payload |-> strip(payload_)]
             ELSE [command |-> NoCommand, payload |-> <<>>]

\* a reply: MessageFactory.text(...) of the message named by kind
Reply(kind, body) == [kind |-> kind, body |-> body]

\* _fallback_message(text)
fallback_message(text_) == Reply("fallback", Reverse(text_))

Words ==
    {help, about, time, calc, <<"C", "a", "l", "c">>, <<"H", "E", "L", "P">>,
     <<"h", "i">>}

Rests ==
    {<<>>, <<" ", "1", "+", "1">>, <<" ", "1", "/", "0">>,
     <<" ", " ", "2", "*", "*", "3", " ">>, <<" ", NineRun, "/", "1">>,
     <<"\t", "1", "+", "1">>, <<" ", "m", "e">>}

Texts ==
    {l \o w \o r : l \in {<<>>, <<" ">>}, w \in Words, r \in Rests}
        \cup {<<>>, <<" ">>}

InitBot ==
    /\ bot \in {EchoBot("None"), EchoBot("client")}
    /\ text = <<>>
    /\ pc = "idle"
    /\ sent = <<>>
    /\ calls = <<>>
    /\ sentiment = "None"
    /\ key_result = "None"
    /\ payload = <<>>
    /\ outcome = NoOutcome
    /\ earlier = {}

\* the adapter hands the next message to the bot
Receive ==
    /\ pc \in {"idle", "done", "raised"}
    /\ \E t \in Texts : text' = t
    /\ pc' = "message"
    /\ sent' = <<>>
    /\ calls' = <<>>
    /\ sentiment' = "None"
    /\ key_result' = "None"
    /\ UNCHANGED <<bot, payload, outcome, earlier>>

\* on_message_activity(turn_context), up to its return or to nlu_dispatch's
\* first await
on_message_activity ==
    /\ pc = "message"
    /\ LET text_ == strip(text)
           cp    == extract_command_and_payload(text_)
       IN
       IF text_ = <<>> THEN
            /\ sent' = Append(sent, Reply("need_text", <<>>))
            /\ pc' = "done"
            /\ UNCHANGED <<bot, payload, outcome, earlier>>
       ELSE IF cp.command = help THEN
            /\ sent' = Append(sent, Reply("help", bot.capabilities))
            /\ pc' = "done"
            /\ UNCHANGED <<bot, payload, outcome, earlier>>
       ELSE IF cp.command = about THEN
            /\ sent' = Append(sent, Reply("about", <<>>))
            /\ pc' = "done"
            /\ UNCHANGED <<bot, payload, outcome, earlier>>
       ELSE IF cp.command = time THEN
            /\ sent' = Append(sent, Reply("time", <<>>))
            /\ pc' = "done"
            /\ UNCHANGED <<bot, payload, outcome, earlier>>
       ELSE IF cp.command = calc THEN
            LET r == handle_calc(bot, cp.payload) IN
            /\ payload' = cp.payload
            /\ outcome' = r.ret
            /\ bot' = r.self
            /\ earlier' = IF outcome = NoOutcome THEN earlier
                          ELSE earlier \cup {outcome.kind}
            /\ IF r.ret.kind \in Messages
               THEN sent' = Append(sent, Reply("calc", r.ret)) /\ pc' = "done"
               ELSE sent' = sent /\ pc' = "raised"
       ELSE IF bot.language_client = "None" THEN
            \* nlu_dispatch returns None at once
            /\ sent' = Append(sent, fallback_message(text_))
            /\ pc' = "done"
            /\ UNCHANGED <<bot, payload, outcome, earlier>>
       ELSE /\ pc' = "analyze_sentiment"
            /\ UNCHANGED <<bot, payload, outcome, earlier, sent>>
    /\ UNCHANGED <<text, calls, sentiment, key_result>>

\* nlu_dispatch: the executor ran language_client.analyze_sentiment([text])[0]
AnalyzeSentiment ==
    /\ pc = "analyze_sentiment"
    /\ calls' = Append(calls, "analyze_sentiment")
    /\ \E res \in {"raises", "is_error", "ok"} :
         /\ sentiment' = res
         /\ IF res = "ok"
            THEN pc' = "extract_key_phrases" /\ sent' = sent
            ELSE \* nlu_dispatch returns None: the fallback message is sent
                 /\ sent' = Append(sent, fallback_message(strip(text)))
                 /\ pc' = "done"
    /\ UNCHANGED <<bot, text, key_result, payload, outcome, earlier>>

\* nlu_dispatch: the executor ran language_client.extract_key_phrases([text])[0];
\* "empty" is a result without key phrases, "phrases" one with some
ExtractKeyPhrases ==
    /\ pc = "extract_key_phrases"
    /\ calls' = Append(calls, "extract_key_phrases")
    /\ \E res \in {"raises", "is_error", "empty", "phrases"} :
         /\ key_result' = res
         /\ LET key_phrases == IF res = "phrases" THEN <<"key", "phrase">> ELSE <<>>
                key_phrase_text == IF key_phrases # <<>> THEN key_phrases ELSE <<"n/a">>
            IN  sent' = Append(sent, Reply("insight", key_phrase_text))
    /\ pc' = "done"
    /\ UNCHANGED <<bot, text, sentiment, payload, outcome, earlier>>

NextBot ==
    \/ Receive
    \/ on_message_activity
    \/ AnalyzeSentiment
    \/ ExtractKeyPhrases

SpecBot == InitBot /\ [][NextBot]_vars

(***************************************************************************)
(* The documented evaluator, against which the claims are stated:          *)
(*   expr    := term (('+' | '-') term)*                                   *)
(*   term    := factor (('*' | '/') factor)*                               *)
(*   factor  := ('+' | '-') factor | primary                               *)
(*   primary := NUMBER | '(' expr ')'                                      *)
(* NUMBER is one or more digits with at most one decimal point; whitespace *)
(* separates tokens and is otherwise ignored.  Values are rationals [n, d].*)
(***************************************************************************)
Rat(n, d) ==
    LET g == GCD(Abs(n), Abs(d))
        s == IF d < 0 THEN -1 ELSE 1
    IN  [n |-> s * (n \div g), d |-> s * (d \div g)]

RefTokenError == [ok |-> FALSE, toks |-> <<>>]

RECURSIVE RefTokenize(_, _, _)
RefTokenize(s, i, acc) ==
    IF i > Len(s) THEN [ok |-> TRUE, toks |-> acc]
    ELSE LET c == s[i] IN
      IF c \in Whitespace THEN RefTokenize(s, i + 1, acc)
      ELSE IF IsDigit(c) \/ c = "." THEN
           LET j   == SkipDigits(s, i)
               k   == IF j <= Len(s) /\ s[j] = "." THEN SkipDigits(s, j + 1) ELSE j
               lit == SubSeq(s, i, k - 1)
           IN  IF lit = <<".">> THEN RefTokenError
               ELSE RefTokenize(s, k, Append(acc, [type |-> "NUMBER", lit |-> lit]))
      ELSE IF c \in {"+", "-", "*", "/", "(", ")"}
           THEN RefTokenize(s, i + 1, Append(acc, [type |-> c, lit |-> <<c>>]))
      ELSE RefTokenError

RefNone == [ok |-> FALSE, node |-> [type |-> "None"], pos |-> 0]

RefBinaryOp(op, l, r) == [type |-> "BinaryOp", op |-> op, left |-> l, right |-> r]

\* the rules as the cases of one operator, l the parse of the left operand
\* for the rules that continue one
RECURSIVE RefRule(_, _, _, _)
RefRule(rule, toks, i, l) ==
    CASE rule = "expr" ->
           LET t == RefRule("term", toks, i, RefNone) IN
           IF t.ok THEN RefRule("expr_rest", toks, t.pos, t) ELSE RefNone
      [] rule = "expr_rest" ->
           IF At(toks, i) \in {"+", "-"}
           THEN LET r == RefRule("term", toks, i + 1, RefNone) IN
                IF r.ok
                THEN RefRule("expr_rest", toks, r.pos,
                         Parsed(RefBinaryOp(IF At(toks, i) = "+" THEN "Add" ELSE "Sub",
                                            l.node, r.node), r.pos))
                ELSE RefNone
           ELSE l
      [] rule = "term" ->
           LET f == RefRule("factor", toks, i, RefNone) IN
           IF f.ok THEN RefRule("term_rest", toks, f.pos, f) ELSE RefNone
      [] rule = "term_rest" ->
           IF At(toks, i) \in {"*", "/"}
           THEN LET r == RefRule("factor", toks, i + 1, RefNone) IN
                IF r.ok
                THEN RefRule("term_rest", toks, r.pos,
                         Parsed(RefBinaryOp(IF At(toks, i) = "*" THEN "Mul" ELSE "Div",
                                            l.node, r.node), r.pos))
                ELSE RefNone
           ELSE l
      [] rule = "factor" ->
           IF At(toks, i) \in {"+", "-"}
           THEN LET x == RefRule("factor", toks, i + 1, RefNone) IN
                IF x.ok
                THEN Parsed([type |-> "UnaryOp",
                             op |-> IF At(toks, i) = "+" THEN "Plus" ELSE "Neg",
                             operand |-> x.node], x.pos)
                ELSE RefNone
           ELSE RefRule("primary", toks, i, RefNone)
      [] rule = "primary" ->
           IF At(toks, i) = "NUMBER"
           THEN Parsed([type |-> "Number", lit |-> toks[i].lit], i + 1)
           ELSE IF At(toks, i) = "("
           THEN LET e == RefRule("expr", toks, i + 1, RefNone) IN
                IF e.ok /\ At(toks, e.pos) = ")" THEN Parsed(e.node, e.pos + 1) ELSE RefNone
           ELSE RefNone

Expr(toks, i) == RefRule("expr", toks, i, RefNone)

\* the tree of a string of the grammar: [ok, node]
RefParse(s) ==
    LET t == RefTokenize(s, 1, <<>>) IN
    IF ~t.ok THEN [ok |-> FALSE, node |-> RefNone.node]
    ELSE LET e == Expr(t.toks, 1) IN
         IF e.ok /\ e.pos = Len(t.toks) + 1
         THEN [ok |-> TRUE, node |-> e.node]
         ELSE [ok |-> FALSE, node |-> RefNone.node]

\* the decimal value of a literal: its digits read as an integer, over the
\* power of ten that the digits after the point call for
RECURSIVE DecimalDigits(_, _)
DecimalDigits(lit, n) ==
    IF lit = <<>> THEN n
    ELSE IF Head(lit) = "." THEN DecimalDigits(Tail(lit), n)
    ELSE DecimalDigits(Tail(lit), 10 * n + DigitOf(Head(lit)))

RECURSIVE DigitsAfterPoint(_)
DigitsAfterPoint(lit) ==
    IF lit = <<>> THEN 0
    ELSE IF Head(lit) = "." THEN Len(lit) - 1
    ELSE DigitsAfterPoint(Tail(lit))

DecimalValue(lit) == Rat(DecimalDigits(lit, 0), Pow10(DigitsAfterPoint(lit)))

\* the value of a tree: [err, n, d], err = "DivisionByZero" when the right
\* operand of a division evaluates to 0
RefOk(q) == [err |-> "None", n |-> q.n, d |-> q.d]

RefDivisionByZero == [err |-> "DivisionByZero", n |-> 0, d |-> 1]

RECURSIVE RefEval(_)
RefEval(node) ==
    CASE node.type = "Number" -> RefOk(DecimalValue(node.lit))
      [] node.type = "UnaryOp" ->
           LET x == RefEval(node.operand) IN
           IF x.err # "None" THEN x
           ELSE IF node.op = "Neg" THEN RefOk(Rat(-x.n, x.d)) ELSE x
      [] node.type = "BinaryOp" ->
           LET l == RefEval(node.left) IN
           IF l.err # "None" THEN l
           ELSE LET r == RefEval(node.right) IN
                IF r.err # "None" THEN r
                ELSE CASE node.op = "Add" -> RefOk(Rat(l.n * r.d + r.n * l.d, l.d * r.d))
                       [] node.op = "Sub" -> RefOk(Rat(l.n * r.d - r.n * l.d, l.d * r.d))
                       [] node.op = "Mul" -> RefOk(Rat(l.n * r.n, l.d * r.d))
                       [] node.op = "Div" ->
                            IF r.n = 0 THEN RefDivisionByZero
                            ELSE RefOk(Rat(l.n * r.d, l.d * r.n))

\* trimmed, non-empty and through the character gate
PassesGate(s) ==
    /\ strip(s) # <<>>
    /\ \A i \in 1..Len(s) : s[i] \in AllowedChars

WellFormed(s) == PassesGate(s) /\ RefParse(strip(s)).ok

called == pc \in {"returned", "raised"}

(***************************************************************************)
(* Claims about _handle_calc, read in the states after the call            *)
(***************************************************************************)
RefTree(s) == RefParse(strip(s)).node

\* some division of the tree has a right operand that evaluates to exactly 0
RECURSIVE HasZeroDivision(_)
HasZeroDivision(node) ==
    CASE node.type = "BinaryOp" ->
           \/ HasZeroDivision(node.left)
           \/ HasZeroDivision(node.right)
           \/ /\ node.op = "Div"
              /\ RefEval(node.right).err = "None"
              /\ RefEval(node.right).n = 0
      [] node.type = "UnaryOp" -> HasZeroDivision(node.operand)
      [] OTHER -> FALSE

\* a numeric literal: digits with at most one decimal point
IsLiteral(s) ==
    /\ \E i \in 1..Len(s) : IsDigit(s[i])
    /\ \A i \in 1..Len(s) : IsDigit(s[i]) \/ s[i] = "."
    /\ Cardinality({i \in 1..Len(s) : s[i] = "."}) <= 1

\* the number v of the code is the rational q
SameNumber(v, q) == v.a = 0 /\ v.n * q.d = q.n * v.d

RECURSIVE Squeeze(_)
Squeeze(s) ==
    IF s = <<>> THEN <<>>
    ELSE IF Head(s) \in Whitespace THEN Squeeze(Tail(s))
    ELSE <<Head(s)>> \o Squeeze(Tail(s))

\* C1: a payload that passes the character gate but is no sentence of the
\* grammar is answered with the parse-error message, never with the
\* division-by-zero message, whatever divisions by zero it holds.
C1_ParseBeforeEvaluate ==
    (called /\ PassesGate(payload) /\ ~RefParse(strip(payload)).ok)
        => outcome.kind = "ParseError"

\* C2: a payload that is not empty after trimming and holds a character
\* outside the allowed set is answered with the disallowed-character message,
\* and _evaluate_expression is not called for it.
C2_GateRejects ==
    (called /\ strip(payload) # <<>>
            /\ \E i \in 1..Len(payload) : payload[i] \notin AllowedChars)
        => (outcome.kind = "Disallowed" /\ calls = <<>>)

C2_Witness ==
    /\ called
    /\ outcome.kind = "Disallowed"
    /\ calls = <<>>
    /\ \E i \in 1..Len(payload) : payload[i] \in {"1", "/", "("}
    /\ \E i \in 1..Len(payload) : payload[i] = "a"

\* C3: _handle_calc returns a display string for every payload: no exception
\* of parsing or of evaluation escapes it.
C3_NothingEscapes == called => (pc = "returned" /\ outcome.kind \in Messages)

\* C4: a well-formed expression in which some division's right operand
\* evaluates to exactly 0 is answered with the division-by-zero message.
C4_DivisionByZero ==
    (called /\ WellFormed(payload) /\ HasZeroDivision(RefTree(payload)))
        => outcome.kind = "DivisionByZero"

\* C5: for a well-formed expression without a division by zero the value
\* computed is the value of the grammar's tree (precedence, grouping from
\* the left, unary signs at the factor level, parentheses).
C5_ValueOfTheTree ==
    (called /\ WellFormed(payload) /\ RefEval(RefTree(payload)).err = "None")
        => (outcome.kind = "Result"
            /\ SameNumber(outcome.value, RefEval(RefTree(payload))))

\* C6: a payload over the allowed characters that is no sentence of the
\* grammar is answered with an error message, never with a result.
C6_OnlyTheGrammar ==
    (called /\ PassesGate(payload) /\ ~RefParse(strip(payload)).ok)
        => outcome.kind \in {"ParseError", "DivisionByZero"}

\* C7: a numeric literal (digits, at most one decimal point) is accepted and
\* evaluates to its decimal value, leading zeros included.
C7_EveryLiteral ==
    (called /\ IsLiteral(strip(payload)))
        => (outcome.kind = "Result"
            /\ SameNumber(outcome.value, DecimalValue(strip(payload))))

\* C8: whitespace between the tokens of a well-formed expression does not
\* change the outcome: it is that of the expression without the whitespace.
C8_WhitespaceInsignificant ==
    (called /\ WellFormed(payload)
            /\ RefTokenize(Squeeze(payload), 1, <<>>) = RefTokenize(payload, 1, <<>>))
        => LET bare == handle_calc(EchoBot("None"), Squeeze(payload)).ret IN
           /\ outcome.kind = bare.kind
           /\ outcome.value = bare.value

(***************************************************************************)
(* Claims about the instance and about on_message_activity (SpecBot)       *)
(***************************************************************************)
finished == pc \in {"done", "raised"}

\* the first word of the message is help, about, time or calc in any case
Recognised == strip(text) # <<>> /\ lower(split(strip(text))[1]) \in Commands

\* C9: whatever calc requests the instance handled before, _handle_calc
\* gives what it gives on a fresh instance, and the instance's fields and the
\* operator tables are those of a fresh instance after every call.
C9_Stateless ==
    /\ bot = EchoBot(bot.language_client)
    /\ outcome # NoOutcome
         => outcome = handle_calc(EchoBot(bot.language_client), payload).ret

C9_Witness ==
    /\ pc = "done"
    /\ outcome.kind = "Result"
    /\ {"DivisionByZero", "ParseError", "OverflowError", "Result"} \subseteq earlier
    /\ bot = EchoBot(bot.language_client)

\* C10: every message is answered with exactly one reply; a recognised
\* command makes no call of the language client; a failed sentiment call
\* leads to the reversed-text fallback; extract_key_phrases is called only
\* after a successful sentiment result, and its failure still yields the
\* insight reply, with key phrases n/a.
C10_OneReplyPerMessage ==
    finished =>
        /\ Len(sent) = 1
        /\ Recognised => calls = <<>>
        /\ sentiment \in {"raises", "is_error"} =>
               /\ sent = <<fallback_message(strip(text))>>
               /\ calls = <<"analyze_sentiment">>
        /\ key_result # "None" =>
               /\ sentiment = "ok"
               /\ calls = <<"analyze_sentiment", "extract_key_phrases">>
        /\ key_result \in {"raises", "is_error"} =>
               /\ sent[1].kind = "insight"
               /\ sent[1].body = <<"n/a">>

(***************************************************************************)
(* What remains of the refuted claims on the inputs their failures leave   *)
(* out.  Each holds under the specification named.                         *)
(***************************************************************************)
\* a payload Python tokenizes (no integer literal with a leading zero) that
\* holds no line break
Plain(s) ==
    /\ \A i \in 1..Len(s) : s[i] \notin {"\n", "\r"}
    /\ Tokenize(strip(s), 1, 0, <<>>).ok

\* Spec: on plain payloads C4 holds
DivisionByZeroOnPlain ==
    (called /\ Plain(payload) /\ WellFormed(payload)
            /\ HasZeroDivision(RefTree(payload)))
        => outcome.kind = "DivisionByZero"

\* Spec: on plain payloads C5 holds
ValueOfTheTreeOnPlain ==
    (called /\ Plain(payload) /\ WellFormed(payload)
            /\ RefEval(RefTree(payload)).err = "None")
        => (outcome.kind = "Result"
            /\ SameNumber(outcome.value, RefEval(RefTree(payload))))

\* Spec: without a line break C8 holds
WhitespaceOnPlain ==
    (called /\ Plain(payload) /\ WellFormed(payload)
            /\ RefTokenize(Squeeze(payload), 1, <<>>) = RefTokenize(payload, 1, <<>>))
        => LET bare == handle_calc(EchoBot("None"), Squeeze(payload)).ret IN
           /\ outcome.kind = bare.kind
           /\ outcome.value = bare.value

\* Spec, SpecBig: a payload outside the grammar never gets a result
NeverAResultOutsideTheGrammar ==
    (called /\ PassesGate(payload) /\ ~RefParse(strip(payload)).ok)
        => outcome.kind # "Result"

\* SpecBot: C10 holds of every message whose handling ends without an
\* exception
OneReplyUnlessRaised == pc = "done" => C10_OneReplyPerMessage

====
